---- MODULE Spec2Model ----
(***************************************************************************)
(* Excel Data Pool: the upload handler (POST /upload), the search handler  *)
(* (POST /search) and the two tables they work on, as a state machine.     *)
(*                                                                         *)
(* Text is a sequence of one-character strings, so that strip, lower,      *)
(* digit filtering, endswith and LIKE are computed as the code computes    *)
(* them.  A missing cell (pandas NaN / None) is the value NaN.             *)
(*                                                                         *)
(* The store is the SQLite file of database.py.  Each request works on its *)
(* own Session (autoflush off): a SELECT reads the committed tables, an    *)
(* added object stays pending in the session until db.commit() flushes it, *)
(* and a failed flush rolls the whole pending transaction back.  The only  *)
(* store error modelled is the IntegrityError of the UNIQUE index on       *)
(* applicants.phone; I/O errors of the engine are not modelled.            *)
(* The copy of the uploaded file kept under uploads/ is not part of the     *)
(* state.                                                                  *)
(*                                                                         *)
(* Spec       worker processes whose uploads interleave between statements *)
(* SeqSpec    one process: a handler (a coroutine that never awaits inside *)
(*            its row loop) runs to its end before the next request        *)
(* SearchSpec one process that serves uploads and searches                 *)
(***************************************************************************)
EXTENDS Integers, Sequences, FiniteSets, TLC

\* ------------------------------------------------------------------ bounds
MaxRows == 3          \* rows read from the uploaded files of one behaviour
MaxUploads == 2       \* upload requests in one behaviour

Workers == {1, 2}     \* worker processes
Dates == {1, 2}       \* calendar days

\* ------------------------------------------------------------------ text
NaN == <<"<NaN>">>
None == 0

isna(v) == v = NaN

IsSpace(c) == c = " "

Digits == {"0", "1", "2", "3", "4", "5", "6", "7", "8", "9"}

isdigit(c) == c \in Digits

RECURSIVE lstrip(_)
lstrip(s) == IF s # <<>> /\ IsSpace(Head(s)) THEN lstrip(Tail(s)) ELSE s

RECURSIVE rstrip(_)
rstrip(s) ==
    IF s # <<>> /\ IsSpace(s[Len(s)]) THEN rstrip(SubSeq(s, 1, Len(s) - 1)) ELSE s

strip(s) == rstrip(lstrip(s))

lower_char(c) ==
    CASE c = "D" -> "d"
      [] c = "R" -> "r"
      [] c = "B" -> "b"
      [] OTHER -> c

lower(s) == [i \in 1..Len(s) |-> lower_char(s[i])]

startswith(s, p) == Len(s) >= Len(p) /\ SubSeq(s, 1, Len(p)) = p

endswith(s, p) == Len(s) >= Len(p) /\ SubSeq(s, Len(s) - Len(p) + 1, Len(s)) = p

\* inner occurs in s as a contiguous run of characters (a literal substring)
contains_literal(s, inner) ==
    \E i \in 1..(Len(s) + 1) :
        i + Len(inner) - 1 <= Len(s) /\ SubSeq(s, i, i + Len(inner) - 1) = inner

\* ------------------------------------------------------------- column names
POSITION_COL == <<"position">>
DATE_COL == <<"date">>
PHONE_COL == <<"phone">>
LABOR_ID_COL == <<"labor_id">>
NAME_COL == <<"name">>

\* ------------------------------------------------------------- data cleaner
clean_phone(phone) ==
    IF isna(phone) THEN <<>>
    ELSE LET phone_str == strip(phone)
             digits == SelectSeq(phone_str, isdigit)
         IN  IF startswith(digits, <<"0">>) /\ Len(digits) = 10
                 THEN <<"+", "2", "5", "1">> \o Tail(digits)
             ELSE IF startswith(digits, <<"2", "5", "1">>) /\ Len(digits) = 12
                 THEN <<"+">> \o digits
             ELSE IF startswith(digits, <<"9">>) /\ Len(digits) = 9
                 THEN <<"+", "2", "5", "1">> \o digits
             ELSE phone_str

clean_text(text) == IF isna(text) THEN <<>> ELSE strip(text)

\* ------------------------------------------------------------------ inputs
Phone0 == <<"0", "9", "1", "1", "2", "2", "3", "3", "4", "4">>
Phone251 == <<"2", "5", "1", "9", "1", "1", "2", "2", "3", "3", "4", "4">>
PhoneBad == <<" ", "L", " ">>

RawPhones == {NaN, Phone0, Phone251, PhoneBad}
FewPhones == {NaN, PhoneBad}
RawLaborIds == {NaN, <<" ", "L">>}
\* the other cells of a row: full name, position, date.  A date cell is
\* missing, a timestamp of day d, or text pd.to_datetime rejects
RowCells ==
    {[name |-> <<"A", " ">>, position |-> <<"D", "r">>, date |-> <<"ts", 1>>],
     [name |-> <<"A", " ">>, position |-> <<"D", "r">>, date |-> NaN],
     [name |-> NaN, position |-> <<" ", "a", "B">>, date |-> <<"junk">>]}

\* date.today(): every request of a behaviour is served on the last day
Today == CHOOSE d \in Dates : \A e \in Dates : e <= d

FileXlsx == <<"f", ".", "x", "l", "s", "x">>
FileCsv == <<"h", ".", "c", "s", "v">>
FileNoDot == <<"x", "l", "s", "x">>
Filenames == {FileXlsx, FileCsv, FileNoDot}

\* header rows.  WideHeaders: all five columns, the same with padded headers,
\* and one header row for each required column left out.  Headers adds the
\* file that has the three required columns only.
AllCols == <<POSITION_COL, DATE_COL, PHONE_COL, LABOR_ID_COL, NAME_COL>>
PaddedCols ==
    <<<<" ">> \o POSITION_COL, DATE_COL \o <<" ">>, <<" ">> \o PHONE_COL \o <<" ">>,
      LABOR_ID_COL, NAME_COL \o <<" ">>>>
WideHeaders ==
    {AllCols, PaddedCols,
     <<DATE_COL, PHONE_COL, LABOR_ID_COL, NAME_COL>>,
     <<POSITION_COL, DATE_COL, LABOR_ID_COL, NAME_COL>>,
     <<POSITION_COL, DATE_COL, PHONE_COL, LABOR_ID_COL>>}
Headers == WideHeaders \cup {<<POSITION_COL, PHONE_COL, NAME_COL>>}

Range(s) == {s[i] : i \in 1..Len(s)}

\* ------------------------------------------------------------------- state
VARIABLES
    applicants,      \* committed rows of table applicants
    applications,    \* committed rows of table applications
    sess,            \* per worker: the running upload request and its Session
    uploads,         \* upload requests started so far
    rows_read,       \* rows read so far
    search,          \* the search request being answered, and its response
    before           \* history: the tables as they were when the upload of
                     \* the single process began

vars == <<applicants, applications, sess, uploads, rows_read, search, before>>

NoStats == [new_applicants |-> 0, existing_applicants |-> 0, applications_added |-> 0]

NoRow == [phone |-> <<>>, labor_id |-> <<>>, full_name |-> <<>>,
          position |-> <<>>, app_date |-> 0]

NoTables == [applicants |-> {}, applications |-> {}]

\* pc, filename, columns, row, applicant, pending, stats and status are the
\* handler's; valid (what the uploaded file was) and log (the <<phone,
\* applicant id>> of every row resolved so far) are history
IdleSession ==
    [pc |-> "idle", filename |-> <<>>, columns |-> {}, valid |-> TRUE,
     row |-> NoRow, applicant |-> None, pending |-> <<>>, stats |-> NoStats,
     status |-> 0, log |-> {}]

\* the request is over: the response is left, the Session is closed
closed(status, stats, valid, row) ==
    [IdleSession EXCEPT !.pc = "done", !.status = status, !.stats = stats,
                        !.valid = valid, !.row = row]

NoSearch ==
    [position |-> <<>>, start_date |-> <<>>, end_date |-> <<>>,
     unique_only |-> FALSE, status |-> 0, results |-> <<>>]

Init ==
    /\ applicants = {}
    /\ applications = {}
    /\ sess = [w \in Workers |-> IdleSession]
    /\ uploads = 0
    /\ rows_read = 0
    /\ search = NoSearch
    /\ before = NoTables

\* ------------------------------------------------------------------- store
\* row.get(col, default): the cell, or the default when the file has no such column
get(columns, col, value, default) == IF col \in columns THEN value ELSE default

no_unique_index(table, new) == FALSE

\* UNIQUE index on applicants.phone: the INSERT of a row whose phone is
\* already stored raises IntegrityError ('' is a value like any other)
phone_unique_violated(table, new) == \E a \in table : a.phone = new.phone

\* INTEGER PRIMARY KEY of a table nothing is deleted from
next_id(table) == Cardinality(table) + 1

\* the INSERTs of the pending applications, in the order they were added
flush_applications(table, pending) ==
    table \cup {[id |-> Cardinality(table) + i,
                 applicant_id |-> pending[i].applicant_id,
                 position |-> pending[i].position,
                 application_date |-> pending[i].application_date,
                 source_file |-> pending[i].source_file] : i \in 1..Len(pending)}

\* Query.first(): the id of some row of the result, or None
first(ids, r) == IF ids = {} THEN r = None ELSE r \in ids

\* ------------------------------------------------------------------ upload
required_cols_short == {POSITION_COL, PHONE_COL}

required_cols == {POSITION_COL, PHONE_COL, NAME_COL}

accepted_extension(filename) ==
    \/ endswith(filename, <<".", "x", "l", "s", "x">>)
    \/ endswith(filename, <<".", "x", "l", "s">>)

stripped_columns(header) == {strip(col) : col \in Range(header)}

missing(columns) == {col \in required_cols : col \notin columns}

\* what the file is, whatever the handler makes of it: an unaccepted
\* extension, an unreadable workbook, or no position / phone / full name
\* column once the headers are trimmed
FileIsValid(filename, readable, header) ==
    /\ \E ext \in {<<".", "x", "l", "s", "x">>, <<".", "x", "l", "s">>} :
           endswith(filename, ext)
    /\ readable
    /\ \A col \in {POSITION_COL, PHONE_COL, NAME_COL} :
           \E h \in Range(header) : strip(h) = col

\* main.py 73-104: extension, save, read_excel, header trim, required columns
upload_begin(w, Files, snapshot) ==
    /\ search.status = 0
    /\ sess[w].pc \in {"idle", "done"}
    /\ uploads < MaxUploads
    /\ uploads' = uploads + 1
    /\ \E filename \in Filenames, readable \in BOOLEAN, header \in Files :
         LET columns == stripped_columns(header)
             fresh == [IdleSession EXCEPT !.filename = filename,
                                          !.valid = FileIsValid(filename, readable, header)]
         IN  IF ~accepted_extension(filename) \/ ~readable \/ missing(columns) # {}
                 THEN sess' = [sess EXCEPT ![w] = closed(400, NoStats, fresh.valid, NoRow)]
                 ELSE sess' = [sess EXCEPT ![w] =
                                  [fresh EXCEPT !.pc = "loop", !.columns = columns]]
    /\ before' = snapshot
    /\ UNCHANGED <<applicants, applications, rows_read, search>>

\* main.py 116-122: the application date of a row
parse_date(date_value, today) ==
    IF isna(date_value) THEN today
    ELSE IF date_value[1] = "ts" THEN date_value[2]
    ELSE today

phone_query_wrong_column(table, phone) ==
    IF phone # <<>> THEN {a.id : a \in {x \in table : x.labor_id = phone}} ELSE {}

\* main.py 128-129
phone_query(table, phone) ==
    IF phone # <<>> THEN {a.id : a \in {x \in table : x.phone = phone}} ELSE {}

labor_query_always(applicant, labor_id) == labor_id # <<>>

\* main.py 132
labor_query_runs(applicant, labor_id) == applicant = None /\ labor_id # <<>>

\* main.py 133-135
labor_query(table, labor_id) == {a.id : a \in {x \in table : x.labor_id = labor_id}}

\* main.py 107-129: next row of the file, cleaning, lookup by phone
upload_phone_query(w, Phones, Cells) ==
    /\ search.status = 0
    /\ sess[w].pc = "loop"
    /\ rows_read < MaxRows
    /\ rows_read' = rows_read + 1
    /\ \E raw_phone \in Phones, raw_labor \in RawLaborIds, cells \in Cells,
          found \in {a.id : a \in applicants} \cup {None} :
         LET columns == sess[w].columns
             phone == clean_phone(get(columns, PHONE_COL, raw_phone, NaN))
             labor_id == clean_text(get(columns, LABOR_ID_COL, raw_labor, <<>>))
             full_name == clean_text(get(columns, NAME_COL, cells.name, NaN))
             position == lower(clean_text(get(columns, POSITION_COL, cells.position, <<>>)))
             date_value == get(columns, DATE_COL, cells.date, NaN)
             app_date == parse_date(date_value, Today)
         IN  /\ first(phone_query(applicants, phone), found)
             /\ sess' = [sess EXCEPT ![w].pc = "labor_query",
                                     ![w].row = [phone |-> phone, labor_id |-> labor_id,
                                                 full_name |-> full_name,
                                                 position |-> position,
                                                 app_date |-> app_date],
                                     ![w].applicant = found]
    /\ UNCHANGED <<applicants, applications, uploads, search, before>>

\* main.py 131-135: lookup by labor id
upload_labor_query(w) ==
    /\ search.status = 0
    /\ sess[w].pc = "labor_query"
    /\ \E found \in {a.id : a \in applicants} \cup {None} :
         /\ IF labor_query_runs(sess[w].applicant, sess[w].row.labor_id)
                THEN first(labor_query(applicants, sess[w].row.labor_id), found)
                ELSE found = sess[w].applicant
         /\ sess' = [sess EXCEPT ![w].pc = "resolve", ![w].applicant = found]
    /\ UNCHANGED <<applicants, applications, uploads, rows_read, search, before>>

\* main.py 152-157
new_application(applicant_id, row, filename) ==
    [applicant_id |-> applicant_id, position |-> row.position,
     application_date |-> row.app_date, source_file |-> filename]

\* main.py 141-145
new_applicant(table, row) ==
    [id |-> next_id(table), full_name |-> row.full_name, phone |-> row.phone,
     labor_id |-> row.labor_id]

matched_applicant_updated(table, id, row) ==
    {IF a.id = id THEN [a EXCEPT !.full_name = row.full_name, !.labor_id = row.labor_id]
                  ELSE a : a \in table}

\* main.py 137-138: a row that found its applicant writes nothing to the table
matched_applicant(table, id, row) == table

\* main.py 137-159 and, when the INSERT fails, 170-174
upload_resolve(w) ==
    /\ search.status = 0
    /\ sess[w].pc = "resolve"
    /\ LET s == sess[w]
           created == new_applicant(applicants, s.row)
       IN  IF s.applicant # None
               THEN /\ sess' = [sess EXCEPT
                          ![w].pc = "loop",
                          ![w].stats.existing_applicants = @ + 1,
                          ![w].stats.applications_added = @ + 1,
                          ![w].pending = Append(@, new_application(s.applicant, s.row,
                                                                   s.filename)),
                          ![w].log = @ \cup {<<s.row.phone, s.applicant>>},
                          ![w].row = NoRow,
                          ![w].applicant = None]
                    /\ applicants' = matched_applicant(applicants, s.applicant, s.row)
                    /\ UNCHANGED applications
           ELSE IF phone_unique_violated(applicants, created)
               THEN \* db.commit() raises; db.rollback() discards what is pending
                    /\ sess' = [sess EXCEPT ![w] = closed(500, s.stats, s.valid, s.row)]
                    /\ UNCHANGED <<applicants, applications>>
           ELSE \* db.commit() stores the applicant and every pending application
                /\ applicants' = applicants \cup {created}
                /\ applications' = flush_applications(applications, s.pending)
                /\ sess' = [sess EXCEPT
                          ![w].pc = "loop",
                          ![w].stats.new_applicants = @ + 1,
                          ![w].stats.applications_added = @ + 1,
                          ![w].pending = <<new_application(created.id, s.row, s.filename)>>,
                          ![w].log = @ \cup {<<s.row.phone, created.id>>},
                          ![w].row = NoRow,
                          ![w].applicant = None]
    /\ UNCHANGED <<uploads, rows_read, search, before>>

\* main.py 161-168: the file has no further row
upload_commit(w) ==
    /\ search.status = 0
    /\ sess[w].pc = "loop"
    /\ applications' = flush_applications(applications, sess[w].pending)
    /\ sess' = [sess EXCEPT ![w] = closed(200, sess[w].stats, sess[w].valid, NoRow)]
    /\ UNCHANGED <<applicants, uploads, rows_read, search, before>>

\* ------------------------------------------------------------------ search
\* SQLite's LIKE: % is any run of characters, _ is any one character, every
\* other character matches itself, ASCII letters without regard to case
RECURSIVE like(_, _)
like(pattern, text) ==
    IF pattern = <<>> THEN text = <<>>
    ELSE IF Head(pattern) = "%"
        THEN \/ like(Tail(pattern), text)
             \/ text # <<>> /\ like(pattern, Tail(text))
    ELSE IF text = <<>> THEN FALSE
    ELSE IF Head(pattern) = "_" THEN like(Tail(pattern), Tail(text))
    ELSE lower_char(Head(pattern)) = lower_char(Head(text))
         /\ like(Tail(pattern), Tail(text))

\* ColumnOperators.contains(other): column LIKE '%' || other || '%'
contains(column, other) == like(<<"%">> \o other \o <<"%">>, column)

\* a date field of the form: left out or empty (<<>>), or the ISO text of day d
iso(d) == <<"iso", d>>

strptime(text) == text[2]

\* main.py 196-202
in_date_range(app, start_date, end_date) ==
    /\ start_date # <<>> => app.application_date >= strptime(start_date)
    /\ end_date # <<>> => app.application_date <= strptime(end_date)

\* main.py 189-202: the joined and filtered rows
query_rows(position_lower, start_date, end_date) ==
    {r \in {[app |-> app, applicant |-> a] : app \in applications, a \in applicants} :
        /\ r.applicant.id = r.app.applicant_id
        /\ contains(r.app.position, position_lower)
        /\ in_date_range(r.app, start_date, end_date)}

ordered_ascending(rows, results) ==
    /\ Len(results) = Cardinality(rows)
    /\ Range(results) = rows
    /\ \A i, j \in 1..Len(results) :
           i < j => results[i].app.application_date <= results[j].app.application_date

\* main.py 205: ORDER BY application_date DESC, rows of one date in any order
ordered(rows, results) ==
    /\ Len(results) = Cardinality(rows)
    /\ Range(results) = rows
    /\ \A i, j \in 1..Len(results) :
           i < j => results[i].app.application_date >= results[j].app.application_date

\* main.py 212
applicant_key(applicant) ==
    IF applicant.phone # <<>> THEN applicant.phone
    ELSE IF applicant.labor_id # <<>> THEN applicant.labor_id
    ELSE applicant.full_name

\* main.py 209-216
RECURSIVE unique_results(_, _)
unique_results(results, seen_applicants) ==
    IF results = <<>> THEN <<>>
    ELSE LET key == applicant_key(Head(results).applicant)
         IN  IF key \notin seen_applicants
                 THEN <<Head(results)>> \o
                      unique_results(Tail(results), seen_applicants \cup {key})
                 ELSE unique_results(Tail(results), seen_applicants)

\* main.py 176-235: the rows both output forms are built from (the excel form
\* answers 404 when there are none).  A date field that is not ISO text makes
\* strptime raise; such requests are not among the inputs.
search_applicants(Queries, DateArgs) ==
    /\ search.status = 0
    /\ \E position \in Queries, start_date \in DateArgs, end_date \in DateArgs,
          unique_only \in BOOLEAN :
         LET position_lower == strip(lower(position))
             rows == query_rows(position_lower, start_date, end_date)
         IN  \E results \in [1..Cardinality(rows) -> rows] :
                 /\ ordered(rows, results)
                 /\ search' = [position |-> position, start_date |-> start_date,
                               end_date |-> end_date, unique_only |-> unique_only,
                               status |-> 200,
                               results |-> IF unique_only
                                               THEN unique_results(results, {})
                                               ELSE results]
    /\ UNCHANGED <<applicants, applications, sess, uploads, rows_read, before>>

\* main.py 269-270: the response has been sent
search_close ==
    /\ search.status # 0
    /\ search' = NoSearch
    /\ UNCHANGED <<applicants, applications, sess, uploads, rows_read, before>>

\* ---------------------------------------------------------- specifications
\* Racing uploads take their rows from every phone form and one set of other
\* cells; the single process takes them from fewer phones and all RowCells.
PlainCells == {[name |-> <<"A", " ">>, position |-> <<"D", "r">>, date |-> NaN]}

Queries == {<<" ">>, <<"R", " ">>, <<"_">>}
DateArgs == {<<>>} \cup {iso(d) : d \in Dates}

tables == [applicants |-> applicants, applications |-> applications]

\* several worker processes on one database file: their uploads run side by
\* side, statement by statement
Next ==
    \/ \E w \in Workers : upload_begin(w, WideHeaders, before)
    \/ \E w \in Workers : upload_phone_query(w, RawPhones, PlainCells)
    \/ \E w \in Workers : upload_labor_query(w)
    \/ \E w \in Workers : upload_resolve(w)
    \/ \E w \in Workers : upload_commit(w)

Spec == Init /\ [][Next]_vars

\* one process: a handler runs to its end before the next request is taken
quiet == \A w \in Workers : sess[w].pc \in {"idle", "done"}

SeqNext ==
    \/ quiet /\ upload_begin(1, Headers, tables)
    \/ upload_phone_query(1, FewPhones, RowCells)
    \/ upload_labor_query(1)
    \/ upload_resolve(1)
    \/ upload_commit(1)

SeqSpec == Init /\ [][SeqNext]_vars

\* one process that also answers searches
SearchNext ==
    \/ quiet /\ upload_begin(1, Headers, tables)
    \/ upload_phone_query(1, FewPhones, RowCells)
    \/ upload_labor_query(1)
    \/ upload_resolve(1)
    \/ upload_commit(1)
    \/ quiet /\ search_applicants(Queries, DateArgs)
    \/ search_close

SearchSpec == Init /\ [][SearchNext]_vars

\* ------------------------------------------------------------------ claims
PhoneOf(id) == (CHOOSE a \in applicants : a.id = id).phone

running(w) == sess[w].pc \notin {"idle", "done"}

\* C1: an upload that fails in its row loop or its final commit leaves both
\* tables exactly as they were when it started.
C1_UploadAllOrNothing ==
    [][\A w \in Workers :
          (running(w) /\ sess'[w].status = 500) =>
              /\ applicants' = before.applicants
              /\ applications' = before.applications]_vars

\* C2 as stated: within one batch every row with the same non-empty cleaned
\* phone is resolved to the same applicant.
C2_SamePhoneSameApplicant ==
    \A w \in Workers : \A e1, e2 \in sess[w].log :
        (e1[1] # <<>> /\ e1[1] = e2[1]) => e1[2] = e2[2]

\* C2 as amended: once a row of the batch has been resolved to an applicant
\* that carries the row's non-empty phone, every later row of the batch with
\* that phone is resolved to that same applicant (so no second applicant is
\* created for the phone); rows resolved to applicants carrying the phone
\* all have one and the same applicant.
C2_SamePhoneAfterPhoneMatch ==
    \A w \in Workers :
        /\ sess[w].pc \in {"labor_query", "resolve"} =>
              \A e \in sess[w].log :
                  (e[1] # <<>> /\ e[1] = sess[w].row.phone /\ PhoneOf(e[2]) = e[1])
                      => sess[w].applicant = e[2]
        /\ \A e1, e2 \in sess[w].log :
              (e1[1] # <<>> /\ e1[1] = e2[1]
                 /\ PhoneOf(e1[2]) = e1[1] /\ PhoneOf(e2[2]) = e2[1]) => e1[2] = e2[2]

\* a second row with the phone of an applicant the batch already used is
\* about to be resolved to it
C2_Witness ==
    \E w \in Workers :
        /\ sess[w].pc = "resolve"
        /\ sess[w].row.phone # <<>>
        /\ \E e \in sess[w].log :
              e[1] = sess[w].row.phone /\ PhoneOf(e[2]) = e[1] /\ sess[w].applicant = e[2]

\* C3: no two stored applicants have the same non-empty phone.
C3_PhoneUnique ==
    \A a, b \in applicants : (a.phone # <<>> /\ a.phone = b.phone) => a = b

\* two uploads raced on one new phone: the second INSERT was refused
C3_Witness ==
    \E w \in Workers :
        /\ sess[w].status = 500
        /\ sess[w].row.phone # <<>>
        /\ \E a \in applicants : a.phone = sess[w].row.phone

\* C4: a row whose non-empty phone is the phone of a stored applicant is
\* resolved to that applicant, whatever its labor id; the labor id is looked
\* up only when the phone found nobody; the application is linked to the
\* applicant found; an applicant is created only when neither lookup found one.
C4_PhoneBeforeLaborId ==
    [][\A w \in Workers :
          /\ (sess[w].pc = "loop" /\ sess'[w].pc = "labor_query") =>
                \A a \in applicants :
                    (a.phone # <<>> /\ a.phone = sess'[w].row.phone)
                        => sess'[w].applicant = a.id
          /\ (sess[w].pc = "labor_query" /\ sess'[w].pc = "resolve") =>
                /\ sess[w].applicant # None => sess'[w].applicant = sess[w].applicant
                /\ (sess[w].applicant = None /\ sess'[w].applicant # None) =>
                      \E a \in applicants :
                          /\ a.id = sess'[w].applicant
                          /\ a.labor_id # <<>>
                          /\ a.labor_id = sess[w].row.labor_id
                /\ (sess[w].applicant = None /\ sess'[w].applicant = None) =>
                      \/ sess[w].row.labor_id = <<>>
                      \/ \A a \in applicants : a.labor_id # sess[w].row.labor_id
          /\ (sess[w].pc = "resolve" /\ sess'[w].pc # "resolve"
                /\ sess[w].applicant # None) =>
                /\ applicants' = applicants
                /\ sess'[w].pc = "loop"
                /\ sess'[w].pending[Len(sess'[w].pending)].applicant_id
                      = sess[w].applicant
          /\ (sess[w].pc = "resolve" /\ sess'[w].pc # "resolve"
                /\ applicants' # applicants) =>
                sess[w].applicant = None]_vars

\* the phone found one applicant although the labor id is that of another
C4_Witness ==
    \E w \in Workers :
        /\ sess[w].pc = "resolve"
        /\ sess[w].row.phone # <<>>
        /\ sess[w].applicant # None
        /\ PhoneOf(sess[w].applicant) = sess[w].row.phone
        /\ \E b \in applicants :
              b.id # sess[w].applicant /\ b.labor_id = sess[w].row.labor_id

\* C5: no upload is aborted because of the phone cell of a row.
C5_PhoneNeverAborts == \A w \in Workers : sess[w].status # 500

\* C6: a file with an unaccepted extension, an unreadable file or a file
\* without one of the three required columns is answered 400, none of its
\* rows is processed and the tables are left as they are.
C6_InvalidFilePersistsNothing ==
    /\ [](\A w \in Workers :
            ~sess[w].valid =>
                /\ sess[w].pc = "done"
                /\ sess[w].status = 400
                /\ sess[w].stats = NoStats)
    /\ [][\A w \in Workers :
            (sess'[w] # sess[w] /\ ~sess'[w].valid) =>
                /\ applicants' = applicants
                /\ applications' = applications]_vars

\* an invalid file was refused while the tables held rows
C6_Witness ==
    \E w \in Workers :
        /\ ~sess[w].valid
        /\ sess[w].status = 400
        /\ applicants # {}
        /\ applications # {}

\* C7: with unique_only no two results have the same dedup key, and each
\* result carries the latest date among the matching applications of its
\* applicant.
C7_UniqueOnly ==
    (search.status = 200 /\ search.unique_only) =>
        LET results == search.results
            matching == query_rows(strip(lower(search.position)),
                                   search.start_date, search.end_date)
        IN  /\ \A i, j \in 1..Len(results) :
                  i # j => applicant_key(results[i].applicant)
                              # applicant_key(results[j].applicant)
            /\ \A i \in 1..Len(results) : \A r \in matching :
                  r.applicant.id = results[i].applicant.id
                      => r.app.application_date <= results[i].app.application_date

\* three applications matched, two of one applicant on different days, and
\* the response has one row for each of the two applicants
C7_Witness ==
    /\ search.status = 200
    /\ search.unique_only
    /\ Len(search.results) = 2
    /\ LET matching == query_rows(strip(lower(search.position)),
                                  search.start_date, search.end_date)
       IN  /\ Cardinality(matching) = 3
           /\ \E r1, r2 \in matching :
                 /\ r1.applicant.id = r2.applicant.id
                 /\ r1.app.application_date # r2.app.application_date

\* C8: an upload never fails on a row whose non-empty phone another upload
\* has stored in the meantime; it goes on with the applicant that exists.
C8_RaceRetriedAsLookup ==
    \A w \in Workers :
        sess[w].status = 500 =>
            ~(sess[w].row.phone # <<>>
                /\ \E a \in applicants : a.phone = sess[w].row.phone)

\* C9: a stored applicant is never changed and never removed.
C9_ApplicantsFrozen == [][\A a \in applicants : a \in applicants']_vars

\* a row was resolved through its labor id to an applicant whose stored phone
\* is not the row's phone
C9_Witness ==
    \E w \in Workers : \E e \in sess[w].log :
        /\ e[1] # <<>>
        /\ PhoneOf(e[2]) # e[1]
        /\ sess[w].stats.existing_applicants > 0

\* C10: without unique_only the response holds exactly the stored applications
\* whose position contains the trimmed lower-cased query as a literal
\* substring and whose date lies within the inclusive bounds given.
C10_LiteralSubstringSearch ==
    (search.status = 200 /\ ~search.unique_only) =>
        {search.results[i].app : i \in 1..Len(search.results)} =
            {app \in applications :
                /\ contains_literal(app.position, strip(lower(search.position)))
                /\ search.start_date # <<>> =>
                      app.application_date >= search.start_date[2]
                /\ search.end_date # <<>> =>
                      app.application_date <= search.end_date[2]}

====
